---------------------------- MODULE Spec2Model ----------------------------
(***************************************************************************)
(* Model of src/main.py: a background thread (update_metrics) runs a shell *)
(* command every few seconds, parses its CSV output (execute_command) and  *)
(* republishes it in a labelled Prometheus gauge, while an HTTP handler    *)
(* (metrics_endpoint) serialises the gauge on request.                     *)
(*                                                                         *)
(* Text is modelled as a sequence of one-character strings.  Numbers are   *)
(* fixed-point integers: the float 42.5 is 425 when FracDigits = 1.        *)
(***************************************************************************)
EXTENDS Integers, Sequences, FiniteSets, TLC

\* ------------------------------------------------------------------ bounds
\* Collection cycles started before the model stops spawning commands.
MaxCycles == 3

\* Lines of one parser input (parser specification).
MaxLines == 2

\* Fractional digits kept by the fixed-point representation of a float.
FracDigits == 1

\* Child processes, running and exited, that reap_children() may find
\* (reaper specification).
MaxKids == 8

\* ------------------------------------------------------------- characters
\* What str.strip() removes (the members of string.whitespace that the
\* inputs of this model use).
Whitespace == {" ", "\t", "\n", "\r"}

Digits == {"0", "1", "2", "3", "4", "5", "6", "7", "8", "9"}

DigitVal(c) ==
  CASE c = "0" -> 0 [] c = "1" -> 1 [] c = "2" -> 2 [] c = "3" -> 3
    [] c = "4" -> 4 [] c = "5" -> 5 [] c = "6" -> 6 [] c = "7" -> 7
    [] c = "8" -> 8 [] c = "9" -> 9

RECURSIVE Pow10(_)
Pow10(n) == IF n = 0 THEN 1 ELSE 10 * Pow10(n - 1)

Scale == Pow10(FracDigits)

\* ------------------------------------------------------------ str methods
\* str.strip(): from the first to the last character that is not
\* whitespace.
Strip(s) ==
  LET keep == { i \in 1..Len(s) : s[i] \notin Whitespace }
  IN  IF keep = {} THEN <<>>
      ELSE SubSeq(s, CHOOSE i \in keep : \A j \in keep : i <= j,
                     CHOOSE i \in keep : \A j \in keep : j <= i)

\* Index of the first occurrence of character c in s, 0 when there is none.
IndexOf(s, c) ==
  IF \E i \in 1..Len(s) : s[i] = c
    THEN CHOOSE i \in 1..Len(s) : s[i] = c /\ \A j \in 1..(i - 1) : s[j] # c
    ELSE 0

\* str.split(sep) with a one-character separator: one more piece than there
\* are separators, "" gives [""].  at[k] is the position of the k-th
\* separator, at[0] and at[last] the two ends.
Split(s, sep) ==
  LET seps == { i \in 1..Len(s) : s[i] = sep }
      n    == Cardinality(seps)
      at   == [k \in 0..(n + 1) |->
                IF k = 0 THEN 0
                ELSE IF k = n + 1 THEN Len(s) + 1
                ELSE CHOOSE i \in seps : Cardinality({ j \in seps : j < i }) = k - 1]
  IN  [k \in 1..(n + 1) |-> SubSeq(s, at[k - 1] + 1, at[k] - 1)]

\* --------------------------------------------------------------- float()
\* The number written by the digit string s.
DigitsVal(s) ==
  LET v[n \in 0..Len(s)] == IF n = 0 THEN 0 ELSE 10 * v[n - 1] + DigitVal(s[n])
  IN  v[Len(s)]

AllDigits(s) == \A i \in 1..Len(s) : s[i] \in Digits

\* The fraction digits f as a multiple of 1/Scale (digits beyond FracDigits
\* are dropped; the inputs of the model have none).
FracVal(f) ==
  LET g == SubSeq(f, 1, IF Len(f) < FracDigits THEN Len(f) ELSE FracDigits)
  IN  DigitsVal(g) * Pow10(FracDigits - Len(g))

\* ParseFloat without the "at least one digit" test: an empty value field
\* is read as zero.
ParseFloatEmptyIsZero(s) ==
  LET t    == Strip(s)
      neg  == t # <<>> /\ Head(t) = "-"
      body == IF t # <<>> /\ Head(t) \in {"-", "+"} THEN Tail(t) ELSE t
      dot  == IndexOf(body, ".")
      ip   == IF dot = 0 THEN body ELSE SubSeq(body, 1, dot - 1)
      fp   == IF dot = 0 THEN <<>> ELSE SubSeq(body, dot + 1, Len(body))
      ok   == AllDigits(ip) /\ AllDigits(fp)
      mag  == DigitsVal(ip) * Scale + FracVal(fp)
  IN  IF ok THEN [ok |-> TRUE, val |-> IF neg THEN 0 - mag ELSE mag]
            ELSE [ok |-> FALSE, val |-> 0]

\* float(s) for decimal literals: optional sign, digits with an optional
\* point, at least one digit; surrounding whitespace is ignored.  ok = FALSE
\* is the ValueError.  (Exponents, inf/nan and digit-group underscores need
\* the characters e, i, n, f, _ which no input of this model contains.)
ParseFloat(s) ==
  LET t    == Strip(s)
      neg  == t # <<>> /\ Head(t) = "-"
      body == IF t # <<>> /\ Head(t) \in {"-", "+"} THEN Tail(t) ELSE t
      dot  == IndexOf(body, ".")
      ip   == IF dot = 0 THEN body ELSE SubSeq(body, 1, dot - 1)
      fp   == IF dot = 0 THEN <<>> ELSE SubSeq(body, dot + 1, Len(body))
      ok   == AllDigits(ip) /\ AllDigits(fp) /\ Len(ip) + Len(fp) > 0
      mag  == DigitsVal(ip) * Scale + FracVal(fp)
  IN  IF ok THEN [ok |-> TRUE, val |-> IF neg THEN 0 - mag ELSE mag]
            ELSE [ok |-> FALSE, val |-> 0]

\* ------------------------------------------------ execute_command: parsing
\* main.py:47 with the test weakened to "at least 7 fields".
FieldCountAtLeast(fields) == Len(fields) >= 7

\* main.py:47  the negation of `len(fields) != 7`.
FieldCountOk(fields) == Len(fields) = 7

\* main.py:54-62 with process_name and application_name exchanged.
MakeRecordSwapped(fields, value) ==
  [component        |-> Strip(fields[1]),
   process_name     |-> Strip(fields[3]),
   application_name |-> Strip(fields[2]),
   env              |-> Strip(fields[4]),
   domain_name      |-> Strip(fields[5]),
   mon_type         |-> Strip(fields[6]),
   value            |-> value]

\* main.py:54-62  the dict appended for an accepted line.
MakeRecord(fields, value) ==
  [component        |-> Strip(fields[1]),
   process_name     |-> Strip(fields[2]),
   application_name |-> Strip(fields[3]),
   env              |-> Strip(fields[4]),
   domain_name      |-> Strip(fields[5]),
   mon_type         |-> Strip(fields[6]),
   value            |-> value]

\* main.py:46-64  one iteration of the loop: the records (none or one) that
\* the line adds to `metrics`.
ParseLine(line) ==
  LET fields == Split(line, ",")
  IN  IF ~FieldCountOk(fields)
        THEN <<>>
        ELSE LET f == ParseFloat(Strip(fields[7]))
             IN  IF f.ok THEN <<MakeRecord(fields, f.val)>> ELSE <<>>

\* main.py:45-64 with the ValueError handler placed around the whole loop:
\* the first rejected line ends the batch.
ParseLinesAbort(lines) ==
  LET acc[n \in 0..Len(lines)] ==
        IF n = 0 THEN <<>>
        ELSE IF \E k \in 1..n : ParseLine(lines[k]) = <<>> THEN acc[n - 1]
        ELSE acc[n - 1] \o ParseLine(lines[n])
  IN  acc[Len(lines)]

\* main.py:45-64 with each record put in front of the list
\* (metrics.insert(0, ...)).
ParseLinesReversed(lines) ==
  LET acc[n \in 0..Len(lines)] ==
        IF n = 0 THEN <<>> ELSE ParseLine(lines[n]) \o acc[n - 1]
  IN  acc[Len(lines)]

\* main.py:45-64  the for loop over the lines: acc[n] is `metrics` after n
\* lines.
ParseLines(lines) ==
  LET acc[n \in 0..Len(lines)] ==
        IF n = 0 THEN <<>> ELSE acc[n - 1] \o ParseLine(lines[n])
  IN  acc[Len(lines)]

\* main.py:41-66  the list returned for a command that exited with status 0
\* and wrote stdout.
ParseOutput(stdout) == ParseLines(Split(Strip(stdout), "\n"))

\* The handler of CalledProcessError returning what the failed command had
\* printed (e.output) as if it had succeeded.
OnCalledProcessErrorParses(stdout) == ParseOutput(stdout)

\* main.py:68-70  the list returned when check_output raised
\* CalledProcessError (non-zero exit status); the output is discarded.
OnCalledProcessError(stdout) == <<>>


\* ------------------------------------------------- what the command prints
\* A value field as the script writes it, with the number it denotes in
\* tenths (isnum = FALSE: not a number).
V5   == [txt |-> <<"5">>, isnum |-> TRUE, tenths |-> 50]

V9   == [txt |-> <<"9">>, isnum |-> TRUE, tenths |-> 90]

V7   == [txt |-> <<"7">>, isnum |-> TRUE, tenths |-> 70]

V2p5 == [txt |-> <<"2", ".", "5">>, isnum |-> TRUE, tenths |-> 25]

Vm3  == [txt |-> <<"-", "3", ".", "0">>, isnum |-> TRUE, tenths |-> 0 - 30]

Vbad == [txt |-> <<"1", "x">>, isnum |-> FALSE, tenths |-> 0]

Vnone == [txt |-> <<>>, isnum |-> FALSE, tenths |-> 0]

LabelsA == << <<"a">>, <<"b">>, <<"c">>, <<"d">>, <<"e">>, <<"f">> >>

LabelsX == << <<"x">>, <<"y">>, <<"z">>, <<"p">>, <<"q">>, <<"r">> >>

\* An inner blank and an empty label: both are legal label values.
LabelsOdd == << <<"a", " ", "b">>, <<>>, <<"c">>, <<"d">>, <<"e">>, <<"f">> >>

NoPad == [l |-> <<>>, r |-> <<>>]

SpacePad == [l |-> <<" ">>, r |-> <<" ">>]

TabPad == [l |-> <<"\t", " ">>, r |-> <<" ">>]

\* A line the script prints: the label fields, then the value field, every
\* field written between the same padding.
LineOf(labels, val, pad) == [labels |-> labels, val |-> val, pad |-> pad]

\* Shapes of lines for the parser specification: accepted lines, lines of
\* 1, 2, 6 and 8 fields, and 7-field lines with a non-numeric value.
ParseShapes ==
  { LineOf(LabelsA, V7, NoPad),
    LineOf(LabelsX, V2p5, NoPad),
    LineOf(LabelsA, Vm3, NoPad),
    LineOf(LabelsOdd, V9, NoPad),
    LineOf(<< <<"x">> >>, [txt |-> <<"y">>, isnum |-> FALSE, tenths |-> 0], NoPad),
    LineOf(LabelsA \o << <<"1">> >>, [txt |-> <<"2">>, isnum |-> TRUE, tenths |-> 20], NoPad),
    LineOf(SubSeq(LabelsA, 1, 5), V7, NoPad),
    LineOf(LabelsA, Vbad, NoPad),
    LineOf(LabelsA, Vnone, NoPad),
    LineOf(<<>>, Vnone, NoPad) }

ParsePool ==
  { [s EXCEPT !.pad = p] : s \in ParseShapes, p \in {NoPad, SpacePad, TabPad} }

\* Lines for the collector specification: two series, one of them with two
\* values and different padding, and a malformed line.
LineA5 == LineOf(LabelsA, V5, NoPad)

LineA9 == LineOf(LabelsA, V9, SpacePad)

LineX5 == LineOf(LabelsX, V5, NoPad)

LineBad == LineOf(<< <<"x">> >>, Vnone, NoPad)

\* What the command prints in one cycle of the collector specification:
\* nothing, one series, one series twice with two values, two series, only
\* a malformed line, a malformed line before a valid one.
MainBatches ==
  { <<>>, <<LineA5>>, <<LineX5>>, <<LineA5, LineA9>>, <<LineA5, LineX5>>,
    <<LineBad>>, <<LineBad, LineA9>> }

\* All sequences over S of length at most n.
RECURSIVE SeqsUpTo(_, _)
SeqsUpTo(S, n) ==
  IF n = 0 THEN {<<>>}
  ELSE LET shorter == SeqsUpTo(S, n - 1)
       IN  shorter \cup { Append(b, x) : b \in shorter, x \in S }

\* sep.join(parts)
Join(parts, sep) ==
  LET acc[n \in 0..Len(parts)] ==
        IF n = 0 THEN <<>>
        ELSE IF n = 1 THEN parts[1]
        ELSE acc[n - 1] \o <<sep>> \o parts[n]
  IN  acc[Len(parts)]

\* The text of one line: its fields, padded, joined by commas.
RenderLine(ln) ==
  LET raw == ln.labels \o <<ln.val.txt>>
  IN  Join([i \in 1..Len(raw) |-> ln.pad.l \o raw[i] \o ln.pad.r], ",")

\* The text on the command's stdout: the lines joined by newlines, with or
\* without a final newline.
RenderOutput(c) ==
  Join([i \in 1..Len(c.batch) |-> RenderLine(c.batch[i])], "\n")
    \o (IF c.nl THEN <<"\n">> ELSE <<>>)

\* What one run of the command does: exit 0 ("ok"), exit non-zero
\* ("nonzero"), write bytes that do not decode ("undecodable"), or never
\* exit ("hang"); batch is what it prints.
Commands ==
  [kind : {"ok"}, batch : MainBatches, nl : {TRUE}]
    \cup [kind : {"nonzero"}, batch : {<<>>, <<LineA5>>}, nl : {TRUE}]
    \cup [kind : {"undecodable", "hang"}, batch : {<<>>}, nl : {TRUE}]

NoCommand == [kind |-> "none", batch |-> <<>>, nl |-> FALSE]


\* ------------------------------------------------------------------ state
VARIABLES
  pc,         \* position of the update_metrics thread
  cycle,      \* number of collection cycles started
  cmd,        \* what the command of the current cycle does
  metrics,    \* the local `metrics` of update_metrics
  idx,        \* position of `for metric in metrics` (1-based)
  registry,   \* gauge._metrics: insertion-ordered label tuple -> child
  kids,       \* child processes of this process not yet waited for
  rd,         \* the /metrics request in flight
  published,  \* history: the records of the last cycle that finished publishing
  committed   \* history: every registry content left by a finished publish

vars == <<pc, cycle, cmd, metrics, idx, registry, kids, rd, published, committed>>

\* ------------------------------------------------------------- the gauge
\* The label tuple of a record, in the order of the gauge's labelnames
\* (main.py:21, main.py:81-87).
Key(m) ==
  <<m.component, m.process_name, m.application_name,
    m.env, m.domain_name, m.mon_type>>

\* Position of the child labelled k in the gauge, 0 when there is none.
Find(reg, k) ==
  IF \E i \in 1..Len(reg) : reg[i].key = k
    THEN CHOOSE i \in 1..Len(reg) : reg[i].key = k
    ELSE 0

\* gauge.clear() that leaves the children in place.
GaugeClearKeepsStale(reg) == reg

\* main.py:78  gauge.clear(): under the gauge's lock, _metrics = {}.
GaugeClear(reg) == <<>>

\* gauge.labels(...) that creates a child on every call.
GaugeLabelsAlwaysAppends(reg, k, c) ==
  Append(reg, [key |-> k, val |-> 0, gen |-> c])

\* main.py:81-87  gauge.labels(...): under the gauge's lock, the child of
\* the label tuple, created with value 0.0 when absent.  `gen` records the
\* cycle that created or last wrote the child.
GaugeLabels(reg, k, c) ==
  IF Find(reg, k) # 0 THEN reg
  ELSE Append(reg, [key |-> k, val |-> 0, gen |-> c])

\* child.set(v) that keeps a value already written in this cycle.
GaugeSetFirstWins(reg, k, v, c) ==
  IF reg[Find(reg, k)].val # 0 THEN reg
  ELSE [reg EXCEPT ![Find(reg, k)] = [key |-> k, val |-> v, gen |-> c]]

\* main.py:88  .set(value) on the child returned by labels().
GaugeSet(reg, k, v, c) ==
  [reg EXCEPT ![Find(reg, k)] = [key |-> k, val |-> v, gen |-> c]]

\* waitpid without the `pid == 0` exit of the loop: the loop goes on while
\* any child is left.
WaitPidNoBreak(k) ==
  IF k.zombie > 0
    THEN [res |-> "pid", again |-> TRUE, kids |-> [k EXCEPT !.zombie = @ - 1]]
  ELSE IF k.running > 0
    THEN [res |-> "zero", again |-> TRUE, kids |-> k]
    ELSE [res |-> "ChildProcessError", again |-> FALSE, kids |-> k]

\* main.py:28-35  one turn of the loop of reap_children:
\* os.waitpid(-1, os.WNOHANG) takes one exited child if there is one
\* (the loop goes on), returns pid 0 if children exist but none has exited
\* (break), raises ChildProcessError if there is no child at all (break).
WaitPid(k) ==
  IF k.zombie > 0
    THEN [res |-> "pid", again |-> TRUE, kids |-> [k EXCEPT !.zombie = @ - 1]]
  ELSE IF k.running > 0
    THEN [res |-> "zero", again |-> FALSE, kids |-> k]
    ELSE [res |-> "ChildProcessError", again |-> FALSE, kids |-> k]

\* main.py:25-35  reap_children() as a whole when no child exits meanwhile:
\* exited children are gone, running ones stay.
ReapChildren(k) == [running |-> k.running, zombie |-> 0]

\* The (label tuple, value) pairs of a registry content or of a response.
Content(reg) == [i \in 1..Len(reg) |-> <<reg[i].key, reg[i].val>>]

\* No request in flight.  `at` records where the collector was (cycle and
\* position) when the request in flight arrived.
Idle ==
  [pc |-> "idle", dict |-> <<>>, i |-> 0, out |-> <<>>,
   at |-> [cycle |-> 0, pc |-> "collect"]]

\* ---------------------------------------------------------------- initial
Init ==
  /\ pc = "collect"
  /\ cycle = 0
  /\ cmd = NoCommand
  /\ metrics = <<>>
  /\ idx = 0
  /\ registry = <<>>
  /\ kids = [running |-> 0, zombie |-> 0]
  /\ rd = Idle
  /\ published = <<>>
  /\ committed = {<<>>}

\* ------------------------------------------------- update_metrics thread
\* main.py:75, 41  check_output starts the shell.
Spawn ==
  /\ pc = "collect"
  /\ cycle < MaxCycles
  /\ \E c \in Commands : cmd' = c
  /\ pc' = "running"
  /\ cycle' = cycle + 1
  /\ kids' = [kids EXCEPT !.running = @ + 1]
  /\ UNCHANGED <<metrics, idx, registry, rd, published, committed>>

\* main.py:41  Popen raises OSError (fork or pipe creation fails): neither
\* execute_command nor update_metrics catches it, the thread ends.
SpawnFails ==
  /\ pc = "collect"
  /\ cycle < MaxCycles
  /\ pc' = "dead"
  /\ cycle' = cycle + 1
  /\ cmd' = NoCommand
  /\ UNCHANGED <<metrics, idx, registry, kids, rd, published, committed>>

\* main.py:41-66, 75  the command exits 0; check_output has waited for it,
\* execute_command parses the output and returns the records.
CommandSucceeds ==
  /\ pc = "running"
  /\ cmd.kind = "ok"
  /\ metrics' = ParseOutput(RenderOutput(cmd))
  /\ kids' = [kids EXCEPT !.running = @ - 1]
  /\ pc' = "clear"
  /\ UNCHANGED <<cycle, cmd, idx, registry, rd, published, committed>>

\* check_output given a timeout: a command that does not exit is given up
\* and handled like one that failed.
CommandFailsOrTimesOut ==
  /\ pc = "running"
  /\ cmd.kind \in {"nonzero", "hang"}
  /\ metrics' = OnCalledProcessError(RenderOutput(cmd))
  /\ kids' = [kids EXCEPT !.running = @ - 1]
  /\ pc' = "clear"
  /\ UNCHANGED <<cycle, cmd, idx, registry, rd, published, committed>>

\* The CalledProcessError handler clearing the gauge itself.
CommandFailsClears ==
  /\ pc = "running"
  /\ cmd.kind = "nonzero"
  /\ metrics' = OnCalledProcessError(RenderOutput(cmd))
  /\ kids' = [kids EXCEPT !.running = @ - 1]
  /\ registry' = GaugeClear(registry)
  /\ pc' = "clear"
  /\ UNCHANGED <<cycle, cmd, idx, rd, published, committed>>

\* main.py:68-70, 75  the command exits non-zero: CalledProcessError.
CommandFails ==
  /\ pc = "running"
  /\ cmd.kind = "nonzero"
  /\ metrics' = OnCalledProcessError(RenderOutput(cmd))
  /\ kids' = [kids EXCEPT !.running = @ - 1]
  /\ pc' = "clear"
  /\ UNCHANGED <<cycle, cmd, idx, registry, rd, published, committed>>

\* main.py:41  text=True: output that is not valid in the locale's encoding
\* raises UnicodeDecodeError out of check_output, which nothing catches.
DecodeFails ==
  /\ pc = "running"
  /\ cmd.kind = "undecodable"
  /\ kids' = [kids EXCEPT !.running = @ - 1]
  /\ pc' = "dead"
  /\ UNCHANGED <<cycle, cmd, metrics, idx, registry, rd, published, committed>>

\* The publish step with the clear made conditional on having records
\* (`if metrics: gauge.clear()`).
ClearSkippedWhenEmpty ==
  /\ pc = "clear"
  /\ registry' = IF metrics = <<>> THEN registry ELSE GaugeClear(registry)
  /\ idx' = 1
  /\ IF metrics = <<>>
       THEN /\ pc' = "reap"
            /\ published' = metrics
            /\ committed' = committed \cup {Content(registry')}
       ELSE /\ pc' = "labels"
            /\ UNCHANGED <<published, committed>>
  /\ UNCHANGED <<cycle, cmd, metrics, kids, rd>>

\* main.py:78  gauge.clear(); with no record the for loop is over at once.
Clear ==
  /\ pc = "clear"
  /\ registry' = GaugeClear(registry)
  /\ idx' = 1
  /\ IF metrics = <<>>
       THEN /\ pc' = "reap"
            /\ published' = metrics
            /\ committed' = committed \cup {Content(registry')}
       ELSE /\ pc' = "labels"
            /\ UNCHANGED <<published, committed>>
  /\ UNCHANGED <<cycle, cmd, metrics, kids, rd>>

\* main.py:80-87  gauge.labels(...) for the record at idx.
Labels ==
  /\ pc = "labels"
  /\ registry' = GaugeLabels(registry, Key(metrics[idx]), cycle)
  /\ pc' = "set"
  /\ UNCHANGED <<cycle, cmd, metrics, idx, kids, rd, published, committed>>

\* main.py:88-90  .set(value), then the next record or the end of the loop.
Set ==
  /\ pc = "set"
  /\ registry' = GaugeSet(registry, Key(metrics[idx]), metrics[idx].value, cycle)
  /\ idx' = idx + 1
  /\ IF idx < Len(metrics)
       THEN /\ pc' = "labels"
            /\ UNCHANGED <<published, committed>>
       ELSE /\ pc' = "reap"
            /\ published' = metrics
            /\ committed' = committed \cup {Content(registry')}
  /\ UNCHANGED <<cycle, cmd, metrics, kids, rd>>

\* main.py:93, 27-35  reap_children(): one turn of its loop; the loop is
\* left, and the sleep begins, when waitpid found nothing to take.
Reap ==
  /\ pc = "reap"
  /\ kids' = WaitPid(kids).kids
  /\ pc' = IF WaitPid(kids).again THEN "reap" ELSE "sleep"
  /\ UNCHANGED <<cycle, cmd, metrics, idx, registry, rd, published, committed>>

\* main.py:95, 74  time.sleep(5) returns, the loop starts over.
Wake ==
  /\ pc = "sleep"
  /\ pc' = "collect"
  /\ UNCHANGED <<cycle, cmd, metrics, idx, registry, kids, rd, published, committed>>

\* ------------------------------------------------------ GET /metrics
\* main.py:100  generate_latest(registry) collects the gauge: under the
\* gauge's lock it copies _metrics (label tuple -> child object).
Request ==
  /\ rd.pc = "idle"
  /\ rd' = [pc   |-> IF registry = <<>> THEN "done" ELSE "reading",
            dict |-> registry, i |-> 1, out |-> <<>>,
            at   |-> [cycle |-> cycle, pc |-> pc]]
  /\ UNCHANGED <<pc, cycle, cmd, metrics, idx, registry, kids, published, committed>>

\* The value read from the child copied as e: the copy holds the object, so
\* the value is the live one while that child is still in the gauge, and
\* the one it had when the gauge dropped it otherwise.
ChildValue(reg, e) ==
  LET j == Find(reg, e.key)
  IN  IF j # 0 /\ reg[j].gen = e.gen THEN reg[j] ELSE e

\* generate_latest walking the gauge's own map instead of a copy: the walk
\* fails ("dictionary changed size during iteration") when the collector
\* has cleared or extended the map meanwhile.
ReadChildLive ==
  /\ rd.pc = "reading"
  /\ rd' = IF Len(registry) # Len(rd.dict)
             THEN [rd EXCEPT !.pc = "error"]
             ELSE [rd EXCEPT
                     !.out = Append(@, ChildValue(registry, rd.dict[rd.i])),
                     !.i   = @ + 1,
                     !.pc  = IF rd.i < Len(rd.dict) THEN "reading" ELSE "done"]
  /\ UNCHANGED <<pc, cycle, cmd, metrics, idx, registry, kids, published, committed>>

\* main.py:100  generate_latest reads the next copied child's value, outside
\* the lock.
ReadChild ==
  /\ rd.pc = "reading"
  /\ rd' = [rd EXCEPT
              !.out = Append(@, ChildValue(registry, rd.dict[rd.i])),
              !.i   = @ + 1,
              !.pc  = IF rd.i < Len(rd.dict) THEN "reading" ELSE "done"]
  /\ UNCHANGED <<pc, cycle, cmd, metrics, idx, registry, kids, published, committed>>

\* A handler that resets the gauge once it has served it.
RespondAndClear ==
  /\ rd.pc = "done"
  /\ rd' = Idle
  /\ registry' = GaugeClear(registry)
  /\ UNCHANGED <<pc, cycle, cmd, metrics, idx, kids, published, committed>>

\* main.py:100  the Response is returned.
Respond ==
  /\ rd.pc = "done"
  /\ rd' = Idle
  /\ UNCHANGED <<pc, cycle, cmd, metrics, idx, registry, kids, published, committed>>

Collector ==
  \/ Spawn \/ SpawnFails \/ CommandSucceeds \/ CommandFails \/ DecodeFails
  \/ Clear \/ Labels \/ Set \/ Reap \/ Wake

Next == Collector \/ Request \/ ReadChild \/ Respond

Spec == Init /\ [][Next]_vars

TypeOK ==
  /\ pc \in {"collect", "running", "clear", "labels", "set", "reap", "sleep", "dead"}
  /\ cycle \in 0..MaxCycles
  /\ kids.running \in 0..1 /\ kids.zombie = 0
  /\ rd.pc \in {"idle", "reading", "done"}


\* The steps update_metrics takes on its own, between the return of
\* execute_command and the next call of it.
ThreadStep == Clear \/ Labels \/ Set \/ Reap \/ Wake

\* The collector thread is scheduled as long as the process runs, so a step
\* it can take on its own is eventually taken; and a command that exits
\* non-zero does exit.  Nothing is assumed about how long a command that
\* exits 0 takes, nor about a command of kind "hang".
FairSpec == Spec /\ WF_vars(ThreadStep) /\ WF_vars(CommandFails)

\* ------------------------------------------------ parser specification
\* The first cycle's command is running and will exit 0 after printing any
\* batch of at most MaxLines lines of ParsePool.
InitParse ==
  /\ pc = "running"
  /\ cycle = 1
  /\ cmd \in [kind : {"ok"}, batch : SeqsUpTo(ParsePool, MaxLines), nl : BOOLEAN]
  /\ metrics = <<>>
  /\ idx = 0
  /\ registry = <<>>
  /\ kids = [running |-> 1, zombie |-> 0]
  /\ rd = Idle
  /\ published = <<>>
  /\ committed = {<<>>}

NextParse == CommandSucceeds

SpecParse == InitParse /\ [][NextParse]_vars

\* ------------------------------------------------------------- oracles
\* A printed line is well-formed when it was written with six label fields
\* and a numeric value field.
WellFormed(ln) == Len(ln.labels) = 6 /\ ln.val.isnum

\* The record a well-formed line stands for, read off the way the line was
\* written (not off its text).
ExpectedRecord(ln) ==
  [component        |-> ln.labels[1],
   process_name     |-> ln.labels[2],
   application_name |-> ln.labels[3],
   env              |-> ln.labels[4],
   domain_name      |-> ln.labels[5],
   mon_type         |-> ln.labels[6],
   value            |-> (ln.val.tenths * Scale) \div 10]

Range(s) == { s[i] : i \in 1..Len(s) }

\* execute_command has returned the records of a command that exited 0.
Parsed == pc = "clear" /\ cmd.kind = "ok"

\* The publish of the last started cycle is over (or none has started).
PublishDone == pc \notin {"labels", "set"}

KeysOf(recs) == { Key(recs[j]) : j \in 1..Len(recs) }

\* ----------------------------------------------------------------- C1
\* C1: the snapshot returned by a GET /metrics request is the complete
\* registry content left by some finished publish (or the initial empty
\* registry), never a partially populated one.
SnapshotIsCommitted ==
  rd.pc = "done" => Content(rd.out) \in committed

\* ----------------------------------------------------------------- C2
\* C2: all children in the registry, and all entries of any snapshot being
\* read or returned, were written in the same collection cycle.
SameGeneration ==
  /\ \A i, j \in 1..Len(registry) : registry[i].gen = registry[j].gen
  /\ \A i, j \in 1..Len(rd.dict) : rd.dict[i].gen = rd.dict[j].gen
  /\ \A i, j \in 1..Len(rd.out) : rd.out[i].gen = rd.out[j].gen

\* A request answers with two series of an earlier cycle while the
\* collector is in the middle of publishing the next one.
SameGenerationWitness ==
  /\ rd.pc = "done"
  /\ Len(rd.out) = 2
  /\ pc \in {"labels", "set"}
  /\ rd.out[1].gen < cycle

\* ----------------------------------------------------------------- C3
\* C3: once a cycle has finished publishing, and until the next one starts
\* publishing, the registry holds exactly one series per distinct label
\* tuple of that cycle's records, and nothing else.
ExactlyThisCyclesKeys ==
  PublishDone =>
    /\ { registry[i].key : i \in 1..Len(registry) } = KeysOf(published)
    /\ Len(registry) = Cardinality(KeysOf(published))

\* The second cycle has published a series and a series of the first cycle
\* is gone.
ExactlyThisCyclesKeysWitness ==
  /\ pc = "sleep"
  /\ cycle = 2
  /\ registry # <<>>
  /\ \E g \in committed : \E i \in 1..Len(g) :
       g[i][1] \notin { registry[j].key : j \in 1..Len(registry) }

\* ----------------------------------------------------------------- C4
\* C4: after a cycle whose command exited 0 and printed no well-formed line
\* (nothing at all, or only malformed lines), the registry is empty.
EmptyWhenNoRecords ==
  ( /\ pc \in {"reap", "sleep", "collect"}
    /\ cmd.kind = "ok"
    /\ \A i \in 1..Len(cmd.batch) : ~WellFormed(cmd.batch[i]) )
  => registry = <<>>

\* A cycle that printed only malformed lines has completed after an earlier
\* cycle had published a series.
EmptyWhenNoRecordsWitness ==
  /\ pc = "sleep"
  /\ cmd.kind = "ok"
  /\ cmd.batch # <<>>
  /\ \A i \in 1..Len(cmd.batch) : ~WellFormed(cmd.batch[i])
  /\ \E g \in committed : g # <<>>
  /\ registry = <<>>

\* ----------------------------------------------------------------- C5
NonZeroExitSafe ==
  /\ (cmd.kind = "nonzero" /\ pc = "clear") => metrics = <<>>
  /\ (cmd.kind = "nonzero" /\ pc \in {"reap", "sleep", "collect"})
       => (registry = <<>> /\ published = <<>>)
  /\ (cmd.kind = "nonzero" /\ pc \in {"sleep", "collect"})
       => kids = [running |-> 0, zombie |-> 0]
  /\ cmd.kind = "nonzero" => pc # "dead"

CollectorNeverEnds == pc # "dead"

\* ----------------------------------------------------------------- C7
\* C7: every record of the result comes from a line written with exactly 7
\* fields, and every well-formed line of the batch has its record in the
\* result whatever the other lines are.
WrongFieldCountDropped ==
  Parsed =>
    /\ \A r \in Range(metrics) :
         \E i \in 1..Len(cmd.batch) :
           WellFormed(cmd.batch[i]) /\ r = ExpectedRecord(cmd.batch[i])
    /\ \A i \in 1..Len(cmd.batch) :
         WellFormed(cmd.batch[i]) => ExpectedRecord(cmd.batch[i]) \in Range(metrics)

\* A line with another field count came first and the well-formed line
\* after it was still parsed.
WrongFieldCountWitness ==
  /\ Parsed
  /\ Len(cmd.batch) = 2
  /\ Len(cmd.batch[1].labels) \notin {0, 6}
  /\ WellFormed(cmd.batch[2])
  /\ metrics = <<ExpectedRecord(cmd.batch[2])>>

\* ----------------------------------------------------------------- C8
\* C8: the result has one record per line that is well-formed, so a 7-field
\* line gives a record exactly when its value field is numeric; a 7-field
\* line with a non-numeric value leaves no record under its label tuple
\* (unless another line of the batch carries the same labels).
BadValueDropped ==
  Parsed =>
    /\ Len(metrics) = Cardinality({ i \in 1..Len(cmd.batch) : WellFormed(cmd.batch[i]) })
    /\ \A i \in 1..Len(cmd.batch) :
         ( /\ Len(cmd.batch[i].labels) = 6
           /\ ~cmd.batch[i].val.isnum
           /\ \A j \in 1..Len(cmd.batch) :
                WellFormed(cmd.batch[j]) => cmd.batch[j].labels # cmd.batch[i].labels )
         => \A r \in Range(metrics) : Key(r) # cmd.batch[i].labels

\* A 7-field line with a non-numeric value came first and the well-formed
\* line after it was still parsed.
BadValueWitness ==
  /\ Parsed
  /\ Len(cmd.batch) = 2
  /\ Len(cmd.batch[1].labels) = 6
  /\ ~cmd.batch[1].val.isnum
  /\ WellFormed(cmd.batch[2])
  /\ metrics = <<ExpectedRecord(cmd.batch[2])>>

\* ----------------------------------------------------------------- C9
\* C9: the j-th record of the result carries, label by label and in the
\* order component, process_name, application_name, env, domain_name,
\* mon_type, the first six fields of the j-th accepted line without their
\* surrounding whitespace, and the number its 7th field denotes.
LabelsPositionalAndTrimmed ==
  Parsed =>
    LET acc == SelectSeq(cmd.batch, WellFormed)
    IN  \A j \in 1..Len(metrics) :
          /\ j <= Len(acc)
          /\ metrics[j].component = acc[j].labels[1]
          /\ metrics[j].process_name = acc[j].labels[2]
          /\ metrics[j].application_name = acc[j].labels[3]
          /\ metrics[j].env = acc[j].labels[4]
          /\ metrics[j].domain_name = acc[j].labels[5]
          /\ metrics[j].mon_type = acc[j].labels[6]
          /\ metrics[j].value * 10 = acc[j].val.tenths * Scale

\* An accepted line whose fields were written with whitespace around them.
LabelsTrimmedWitness ==
  /\ Parsed
  /\ Len(cmd.batch) >= 1
  /\ WellFormed(cmd.batch[1])
  /\ cmd.batch[1].pad = TabPad
  /\ Len(metrics) >= 1
  /\ Key(metrics[1]) = LabelsA

\* ----------------------------------------------------------------- C10
\* C10: after a publish, every series of the registry holds the value of
\* the last record of the cycle with its label tuple, and no label tuple
\* has two series.
LastWriteWins ==
  PublishDone =>
    /\ \A i \in 1..Len(registry) :
         LET js == { j \in 1..Len(published) : Key(published[j]) = registry[i].key }
         IN  /\ js # {}
             /\ registry[i].val =
                  published[CHOOSE j \in js : \A k \in js : k <= j].value
    /\ \A i, j \in 1..Len(registry) :
         registry[i].key = registry[j].key => i = j

\* Two records of one cycle shared their label tuple and differed in value;
\* the publish is over and one series holds the later value.
LastWriteWinsWitness ==
  /\ pc = "sleep"
  /\ Len(published) = 2
  /\ Key(published[1]) = Key(published[2])
  /\ published[1].value # published[2].value
  /\ Len(registry) = 1
  /\ registry[1].val = published[2].value


\* ----------------------------------------------------------------- C11
\* The command that prints the same valid line in every cycle.
SteadyCommand == [kind |-> "ok", batch |-> <<LineA5>>, nl |-> TRUE]

SpawnSteady == Spawn /\ cmd' = SteadyCommand

\* The program when the command exits 0 after printing the one line
\* a,b,c,d,e,f,5 in every cycle.
NextSteady ==
  \/ SpawnSteady \/ CommandSucceeds
  \/ Clear \/ Labels \/ Set \/ Reap \/ Wake
  \/ Request \/ ReadChild \/ Respond

SpecSteady == Init /\ [][NextSteady]_vars

\* The first cycle was over when the collector was at position a.
FirstCycleDoneAt(a) ==
  a.cycle >= 2 \/ (a.cycle = 1 /\ a.pc \in {"reap", "sleep", "collect"})

\* C11: with the same valid line printed in every cycle, every request that
\* arrives once the first cycle is over is answered with the sample of that
\* line's label tuple and value.
SteadySampleAlwaysServed ==
  (rd.pc = "done" /\ FirstCycleDoneAt(rd.at))
    => \E i \in 1..Len(rd.out) :
         rd.out[i].key = LabelsA /\ rd.out[i].val * 10 = V5.tenths * Scale

\* ----------------------------------------------------------------- C12
\* C12: a request can arrive whatever the collector is doing or has
\* suffered, each of its steps can be taken without waiting for the
\* collector, it never ends in an error, and the response carries one
\* sample per series of the registry as copied on arrival.
EndpointNeverFails ==
  /\ rd.pc \in {"idle", "reading", "done"}
  /\ rd.pc = "idle" => ENABLED Request
  /\ rd.pc = "reading" => ENABLED ReadChild
  /\ rd.pc = "done" =>
       /\ ENABLED Respond
       /\ Len(rd.out) = Len(rd.dict)
       /\ \A i \in 1..Len(rd.out) : rd.out[i].key = rd.dict[i].key

\* A request that arrived in the middle of a publish is answered with a
\* series after the collector thread has ended.
EndpointNeverFailsWitness ==
  /\ rd.pc = "done"
  /\ rd.at.pc \in {"labels", "set"}
  /\ Len(rd.out) >= 1
  /\ pc = "dead"

\* ----------------------------------------------------------------- C13
\* The successive positions of a cycle: Collect/Parse, Publish (clear, then
\* labels and set per record), Reap, Sleep, and back to Collect.
CycleOrder ==
  { <<"collect", "running">>, <<"running", "clear">>,
    <<"clear", "labels">>, <<"clear", "reap">>,
    <<"labels", "set">>, <<"set", "labels">>, <<"set", "reap">>,
    <<"reap", "sleep">>, <<"sleep", "collect">> }

\* C13: every cycle goes through Collect/Parse, Publish, Reap, Sleep in
\* that order, so that every started cycle reaps once, after its publish and
\* before its sleep, and the next command starts only after the sleep.
CycleStepsInOrder ==
  [][pc' # pc => <<pc, pc'>> \in CycleOrder]_vars

\* ----------------------------------------------------------------- C14
\* C14: the parser returns exactly the records of the well-formed lines, in
\* the order of the lines, each once.
ParserKeepsOrder ==
  Parsed =>
    LET acc == SelectSeq(cmd.batch, WellFormed)
    IN  metrics = [j \in 1..Len(acc) |-> ExpectedRecord(acc[j])]

\* Two different well-formed lines were parsed into two records in line
\* order.
ParserKeepsOrderWitness ==
  /\ Parsed
  /\ Len(cmd.batch) = 2
  /\ WellFormed(cmd.batch[1]) /\ WellFormed(cmd.batch[2])
  /\ ExpectedRecord(cmd.batch[1]) # ExpectedRecord(cmd.batch[2])
  /\ metrics = <<ExpectedRecord(cmd.batch[1]), ExpectedRecord(cmd.batch[2])>>


\* ----------------------------------------------------------------- C15
\* C15: at most one command, hence one cycle, is in progress at any time: a
\* cycle starts only from the Collect position, when no command is running;
\* and a step of a request changes nothing but the request itself.
SingleWriterReadOnlyEndpoint ==
  /\ [](kids.running <= 1)
  /\ [][ /\ rd' # rd =>
              UNCHANGED <<pc, cycle, cmd, metrics, idx, registry, kids>>
         /\ cycle' # cycle =>
              (pc = "collect" /\ kids.running = 0 /\ cycle' = cycle + 1) ]_vars

\* A request that arrived in the middle of the second cycle's publish has
\* been served and the publish goes on.
SingleWriterWitness ==
  /\ rd.pc = "done"
  /\ rd.at = [cycle |-> 2, pc |-> "labels"]
  /\ pc = "set"
  /\ registry # <<>>

\* ----------------------------------------------------------------- C16
\* The command of the current cycle never exits.
Hung == pc = "running" /\ cmd.kind = "hang"

\* C16: once the command hangs, the collector stays where it is: no later
\* cycle starts and the registry is neither cleared nor written; requests
\* still arrive and are answered with the registry as the last finished
\* publish left it.
HungCommandStallsCollector ==
  /\ [][Hung => (Hung' /\ UNCHANGED <<cycle, metrics, idx, registry, published>>)]_vars
  /\ [](Hung => (rd.pc = "idle" => ENABLED Request))
  /\ []((Hung /\ rd.pc = "done" /\ rd.at = [cycle |-> cycle, pc |-> "running"])
          => /\ Content(rd.out) = Content(registry)
             /\ Content(rd.out) \in committed
             /\ { rd.out[i].key : i \in 1..Len(rd.out) } = KeysOf(published))

\* The second cycle's command hangs; a request that arrived meanwhile got
\* the series of the first cycle.
HungCommandWitness ==
  /\ Hung
  /\ cycle = 2
  /\ rd.pc = "done"
  /\ rd.at = [cycle |-> 2, pc |-> "running"]
  /\ Len(rd.out) >= 1

\* ----------------------------------------------------------------- C17
\* reap_children() is entered with any number of running and exited
\* children (children other than the shell that check_output has already
\* waited for).
InitReap ==
  /\ pc = "reap"
  /\ cycle = 1
  /\ cmd = [kind |-> "ok", batch |-> <<>>, nl |-> TRUE]
  /\ metrics = <<>>
  /\ idx = 1
  /\ registry = <<>>
  /\ kids \in [running : 0..MaxKids, zombie : 0..MaxKids]
  /\ rd = Idle
  /\ published = <<>>
  /\ committed = {<<>>}

\* A running child exits while reap_children() is at work.
ChildExits ==
  /\ pc = "reap"
  /\ kids.running > 0
  /\ kids' = [running |-> kids.running - 1, zombie |-> kids.zombie + 1]
  /\ UNCHANGED <<pc, cycle, cmd, metrics, idx, registry, rd, published, committed>>

NextReap == Reap \/ ChildExits

SpecReap == InitReap /\ [][NextReap]_vars

\* The collector thread is scheduled: the next turn of the loop is taken.
\* Nothing is assumed about running children exiting.
FairSpecReap == SpecReap /\ WF_vars(Reap)

\* A turn of the loop of reap_children (not the exit of a child).
ReapTurn == pc = "reap" /\ (pc' # pc \/ kids'.zombie < kids.zombie)

\* C17: every turn of reap_children takes one exited child and goes on, or,
\* when no exited child is left, returns at once, with running children
\* left as they are and without an exception when there is no child at all;
\* and reap_children returns after finitely many turns.
ReapNeverBlocks ==
  /\ [][ReapTurn =>
          /\ kids'.running = kids.running
          /\ IF kids.zombie > 0
               THEN pc' = "reap" /\ kids'.zombie = kids.zombie - 1
               ELSE pc' = "sleep" /\ kids' = kids]_vars
  /\ [](pc = "sleep" => kids.zombie = 0)
  /\ [](pc \in {"reap", "sleep"})
  /\ (pc = "reap") ~> (pc = "sleep")

\* reap_children has returned while children are still running.
ReapNeverBlocksWitness ==
  /\ pc = "sleep"
  /\ kids.running = MaxKids
  /\ kids.zombie = 0

\* ----------------------------------------------------------------- C18
\* C18: the registry changes only in a step of the Publish stage (clear,
\* labels, set): not while the command runs or its output is parsed, not
\* while reaping or sleeping, not by a request.
RegistryChangesOnlyInPublish ==
  [][registry' # registry => pc \in {"clear", "labels", "set"}]_vars

\* A request that arrived during the reap of the second cycle returned what
\* the registry still holds during the sleep.
RegistryFrameWitness ==
  /\ pc = "sleep"
  /\ cycle = 2
  /\ registry # <<>>
  /\ rd.pc = "done"
  /\ rd.at = [cycle |-> 2, pc |-> "reap"]
  /\ Content(rd.out) = Content(registry)

=============================================================================
